---- MODULE Spec2Model ----
(***************************************************************************)
(* A model of src/volume.py: Factory, CollectionFactory and Volume, with   *)
(* the part of the host scene (bpy.data.objects, bpy.data.collections,     *)
(* bpy.context.selected_objects) that Volume.create reads and writes.      *)
(***************************************************************************)
EXTENDS Integers, Sequences, FiniteSets, TLC

VARIABLES
    cfg,          \* dataset_config: MIN_/MAX_ WIDTH, LENGTH, HEIGHT, MAX_VOLUMES
    MODULES,      \* list(MODULES.keys()) of dataset_config, in iteration order
    argScale,     \* the scale argument of the constructor call under study
    argLocation,  \* the location argument of the constructor call under study
    volumes,      \* the Volume instances that exist, in order of construction
    creates,      \* history: creates[i] = number of create() calls on volumes[i]
    bpy,          \* the host scene: objects, collections, selected_objects
    materials,    \* Mapping node scale of each material, in halves of a unit
    constructed,  \* what the constructor call under study returned or raised
    origin,       \* history: how volumes[i] was handed out, and in what state
    building,     \* CollectionFactory._produce: its position and locals
    run           \* Volume.add_modules: its position, locals and history

vars == <<cfg, MODULES, argScale, argLocation, volumes, creates, bpy,
          materials, constructed, origin, building, run>>

----------------------------------------------------------------------------
(* Python values.  A number is tagged with its class; nan is the float     *)
(* that compares false with everything; Str stands for any non-numeric     *)
(* element.                                                                *)

PyInt(n) == [t |-> "int", v |-> n]
PyFloat(n) == [t |-> "float", v |-> n]
NaN == [t |-> "nan", v |-> 0]
Str == [t |-> "str", v |-> 0]
None == "None"

\* issubclass(x.__class__, int) or issubclass(x.__class__, float)
IsNumber(x) == x.t \in {"int", "float", "nan"}

\* b > a on numbers: every comparison with nan is False
PyGreater(b, a) == b.t # "nan" /\ a.t # "nan" /\ b.v > a.v

\* a >= b on numbers
PyGE(a, b) == a.t # "nan" /\ b.t # "nan" /\ a.v >= b.v

\* a <= b on numbers
PyLE(a, b) == a.t # "nan" /\ b.t # "nan" /\ a.v <= b.v

\* max(a, b): keeps a unless b > a
PyMax(a, b) == IF PyGreater(b, a) THEN b ELSE a

\* float(x) of a number: the class changes, the value does not
ToFloat(x) == IF x.t = "nan" THEN NaN ELSE PyFloat(x.v)

\* round(d, 1) of d in [0, 1), d in hundredths with last digit # 5; in tenths
RoundTenths(d) == (d + 5) \div 10

\* [f(s[1]), ..., f(s[n])] of a tuple
IsNumericFlags(s) == [i \in 1..Len(s) |-> IF IsNumber(s[i]) THEN 1 ELSE 0]

RECURSIVE MaxOf(_)
\* max(list) of a non-empty list of integers
MaxOf(s) ==
    IF Len(s) = 1 THEN s[1]
    ELSE LET m == MaxOf(Tail(s)) IN IF m > s[1] THEN m ELSE s[1]

----------------------------------------------------------------------------
(* dataset_config.  The file is not among the sources; the configurations  *)
(* are small instances of it with min < max on every axis.                 *)

Configs ==
    { [MIN_WIDTH |-> 2, MAX_WIDTH |-> 3, MIN_LENGTH |-> 1, MAX_LENGTH |-> 3,
       MIN_HEIGHT |-> 2, MAX_HEIGHT |-> 3, MAX_VOLUMES |-> 3],
      [MIN_WIDTH |-> 1, MAX_WIDTH |-> 2, MIN_LENGTH |-> 1, MAX_LENGTH |-> 4,
       MIN_HEIGHT |-> 1, MAX_HEIGHT |-> 3, MAX_VOLUMES |-> 2] }

\* the keys of MODULES: the module types of the glossary, in some order
ModuleKeyOrders ==
    { <<"window", "balcony", "roof">>, <<"roof", "window", "balcony">> }

----------------------------------------------------------------------------
(* Volume.__init__                                                         *)

NoVolume ==
    [width |-> NaN, length |-> NaN, height |-> NaN, floor |-> 0,
     position |-> <<>>, name |-> "", mesh |-> None, modules |-> <<>>]

Raise(e) == [raised |-> e, self |-> NoVolume]

\* the clamp with the arguments of max exchanged: max(x, MIN)
ClampSwapped(minimum, x) == ToFloat(PyMax(x, PyInt(minimum)))

\* float(max(MIN, x)): the clamp of one axis; only called on a number
Clamp(minimum, x) == ToFloat(PyMax(PyInt(minimum), x))

\* self.floor = 2.7 + round(np.random.random(), 1), in tenths
FloorOf(draw) == 27 + RoundTenths(draw)

\* the assertion of lines 97-99 over scale+location
NumericCheck(both) == MaxOf(IsNumericFlags(both)) = 1

\* Volume(scale, location) under configuration c with random draw d
VolumeInit(c, scale, location, d) ==
    IF Len(location) # 3 THEN Raise("AssertionError")
    ELSE IF Len(scale) # 3 THEN Raise("AssertionError")
    ELSE IF ~NumericCheck(scale \o location) THEN Raise("AssertionError")
    ELSE IF ~IsNumber(scale[3]) THEN Raise("TypeError")
    ELSE IF ~IsNumber(scale[1]) THEN Raise("TypeError")
    ELSE IF ~IsNumber(scale[2]) THEN Raise("TypeError")
    ELSE [raised |-> "",
          self |-> [height |-> Clamp(c.MIN_HEIGHT, scale[3]),
                    width |-> Clamp(c.MIN_WIDTH, scale[1]),
                    length |-> Clamp(c.MIN_LENGTH, scale[2]),
                    floor |-> FloorOf(d),
                    position |-> location,
                    name |-> "",
                    mesh |-> None,
                    modules |-> <<>>]]

----------------------------------------------------------------------------
(* The host scene.  bpy.data.objects and bpy.data.collections are keyed by *)
(* name; the host keeps names unique by appending .001, .002, ... to a     *)
(* name that is taken.                                                     *)

NoObjects == [n \in {} |-> 0]

EmptyScene ==
    [objects |-> NoObjects,
     collections |-> ("Building" :> [objects |-> {}, children |-> {}]),
     selected_objects |-> <<>>]

Suffixed(base, k) == IF k = 0 THEN base ELSE base \o ".00" \o ToString(k)

\* the name the host gives to a datablock asked to be called base
UniqueName(base, taken) ==
    LET k == CHOOSE i \in 0..Cardinality(taken) :
                 /\ Suffixed(base, i) \notin taken
                 /\ \A j \in 0..(i - 1) : Suffixed(base, j) \in taken
    IN Suffixed(base, k)

\* the object bpy.ops.mesh.primitive_plane_add makes
NewPlane(location) ==
    [location |-> [i \in 1..3 |-> ToFloat(location[i])],
     scale |-> <<PyFloat(1), PyFloat(1), PyFloat(1)>>,
     extruded |-> <<>>,
     inst_id |-> 0,
     pass_index |-> 0,
     triangulated |-> FALSE,
     active_material |-> "",
     ops |-> <<"plane_add">>]

deselect_all(b) == [b EXCEPT !.selected_objects = <<>>]

select(b, name) == [b EXCEPT !.selected_objects = <<name>>]

\* bpy.ops.mesh.primitive_plane_add(location=...): the new plane is selected
primitive_plane_add(b, location) ==
    LET name == UniqueName("Plane", DOMAIN b.objects)
    IN [b EXCEPT !.objects = (name :> NewPlane(location)) @@ b.objects,
                 !.selected_objects = <<name>>]

\* bpy.ops.transform.resize(value=...) on the selection
resize(b, value) ==
    [b EXCEPT !.objects =
        [n \in DOMAIN b.objects |->
            IF \E i \in 1..Len(b.selected_objects) : b.selected_objects[i] = n
            THEN [b.objects[n] EXCEPT !.scale = value,
                                      !.ops = Append(@, "resize")]
            ELSE b.objects[n]]]

\* the name the host assigns when an object is renamed
AssignedName(b, old, wanted) == UniqueName(wanted, DOMAIN b.objects \ {old})

\* bpy.context.selected_objects[0].name = wanted
SetSelectedName(b, wanted) ==
    LET old == b.selected_objects[1]
        new == AssignedName(b, old, wanted)
    IN [b EXCEPT !.objects =
                    [n \in (DOMAIN b.objects \ {old}) \cup {new} |->
                        IF n = new THEN b.objects[old] ELSE b.objects[n]],
                 !.selected_objects = <<new>>]

\* extrude(self.mesh, self.height) of blender_utils
extrude(b, name, height) ==
    [b EXCEPT !.objects[name].extruded = <<height>>,
              !.objects[name].ops = Append(@, "extrude")]

\* Volume._nest
Volume_nest(self, b) ==
    LET b1 == deselect_all(b)
        names == DOMAIN b1.collections
    IN IF self.name \notin names
       THEN [b1 EXCEPT
               !.collections =
                   [n \in names \cup {self.name} |->
                       IF n = self.name
                       THEN [objects |-> {self.mesh}, children |-> {}]
                       ELSE IF n = "Building"
                       THEN [b1.collections[n] EXCEPT
                                !.children = @ \cup {self.name}]
                       ELSE b1.collections[n]],
               !.objects[self.mesh].ops = Append(@, "nest")]
       ELSE b1

\* Volume._extrude
Volume_extrude(self, b) ==
    LET b1 == deselect_all(b)
    IN IF self.mesh # None THEN extrude(b1, self.mesh, self.height) ELSE b1

\* self.mesh["inst_id"] = 1; self.mesh.pass_index = 1
Tag(self, b) ==
    [b EXCEPT !.objects[self.mesh].inst_id = 1,
              !.objects[self.mesh].pass_index = 1,
              !.objects[self.mesh].ops = Append(@, "tag")]

\* Volume._triangulate
Volume_triangulate(self, b) ==
    LET b1 == deselect_all(b)
    IN IF self.mesh # None
       THEN LET b2 == select(b1, self.mesh)
            IN [b2 EXCEPT !.objects[self.mesh].triangulated = TRUE,
                          !.objects[self.mesh].ops = Append(@, "triangulate")]
       ELSE b1

\* the name asked for instead of the name the host assigned
NameAsRequested(b) == "volume"

\* self.name = bpy.context.selected_objects[0].name
NameOfCreated(b) == b.selected_objects[1]

\* Volume.create up to the assignment of self.name and self.mesh
CreateMesh(self, b) ==
    LET b1 == deselect_all(b)
        b2 == primitive_plane_add(b1, self.position)
        b3 == resize(b2, <<self.length, self.width, PyFloat(1)>>)
        b4 == SetSelectedName(b3, "volume")
        name == NameOfCreated(b4)
    IN [self |-> [self EXCEPT !.name = name, !.mesh = name], bpy |-> b4]

\* Volume.create: the volume and the scene after it
Volume_create(self, b) ==
    LET m == CreateMesh(self, b)
        b5 == Volume_nest(m.self, m.bpy)
        b6 == Volume_extrude(m.self, b5)
        b7 == Tag(m.self, b6)
        b8 == deselect_all(b7)
        b9 == Volume_triangulate(m.self, b8)
    IN [self |-> m.self, bpy |-> b9]

----------------------------------------------------------------------------
(* Factory, Volume.__copy__ and Volume.apply                               *)

DefaultScale == <<PyFloat(1), PyFloat(1), PyFloat(1)>>
DefaultLocation == <<PyFloat(0), PyFloat(0), PyFloat(0)>>

\* the values of np.random.randint(low, high)
RandInt(low, high) == low..(high - 1)

\* the three draws of Factory._produce_random, in the order of lines 49-51
RandomDraws(c) ==
    RandInt(c.MIN_LENGTH, c.MAX_LENGTH) \X RandInt(c.MIN_WIDTH, c.MAX_WIDTH)
        \X RandInt(c.MIN_HEIGHT, c.MAX_HEIGHT)

\* Factory._produce_random with the draws rnd: the volume is not created
Factory_produce_random(c, rnd, d) ==
    VolumeInit(c, <<PyInt(rnd[1]), PyInt(rnd[2]), PyInt(rnd[3])>>,
               DefaultLocation, d)

NoScale == [given |-> FALSE, scale |-> <<>>]
Scale(s) == [given |-> TRUE, scale |-> s]

\* Factory.produce(scale): what it returns or raises, the scene after it and
\* the number of create() calls it made on the volume it returns
Factory_produce(c, b, arg, rnd, d) ==
    IF ~arg.given
    THEN LET r == Factory_produce_random(c, rnd, d)
         IN [raised |-> r.raised, self |-> r.self, bpy |-> b, created |-> 0]
    ELSE LET r == VolumeInit(c, arg.scale, DefaultLocation, d)
         IN IF r.raised # ""
            THEN [raised |-> r.raised, self |-> r.self, bpy |-> b,
                  created |-> 0]
            ELSE LET m == Volume_create(r.self, b)
                 IN [raised |-> "", self |-> m.self, bpy |-> m.bpy,
                     created |-> 1]

\* Volume.__copy__
Volume_copy(c, self, b, d) ==
    IF self.mesh = None
    THEN [raised |-> "AttributeError", self |-> NoVolume, bpy |-> b,
          created |-> 0]
    ELSE LET loc == b.objects[self.mesh].location
             position == <<loc[1], loc[2], PyInt(0)>>
             r == VolumeInit(c, <<self.width, self.length, self.height>>,
                             position, d)
         IN IF r.raised # ""
            THEN [raised |-> r.raised, self |-> r.self, bpy |-> b,
                  created |-> 0]
            ELSE LET m == Volume_create(r.self, b)
                     v == [m.self EXCEPT !.position = loc]
                 IN [raised |-> "", self |-> v,
                     bpy |-> [m.bpy EXCEPT !.objects[v.mesh].location = loc],
                     created |-> 1]

MaterialNames == {"plaster"}
NotAMaterial == "str"

\* the Mapping scale Volume.apply leaves in the material, in halves
MappingScale(self) == <<10 * self.height.v, self.height.v, 10 * self.height.v>>

\* Volume.apply(material)
Volume_apply(self, b, mats, material) ==
    IF material \notin MaterialNames
    THEN [raised |-> "AssertionError", bpy |-> b, materials |-> mats]
    ELSE IF self.mesh = None
    THEN [raised |-> "AttributeError", bpy |-> b, materials |-> mats]
    ELSE [raised |-> "",
          bpy |-> [b EXCEPT !.objects[self.mesh].active_material = material],
          materials |-> [mats EXCEPT ![material] = MappingScale(self)]]

----------------------------------------------------------------------------
(* Bounds and inputs                                                       *)

MaxVolumes == 2

\* the draws of np.random.random() in hundredths that set the floor
FloorDraws == {0, 96}
FloorDraw == {50}

\* the configuration of the runs that follow volumes through their calls
VolumeConfigs == { c \in Configs : c.MIN_WIDTH # c.MIN_LENGTH }

\* scales passed to Factory.produce and Volume
ScaleInputs ==
    { <<PyInt(0), PyInt(0), PyInt(0)>>, <<NaN, PyFloat(-1), PyInt(5)>> }

LocationInputs == { DefaultLocation, <<PyInt(1), PyFloat(2), PyInt(3)>> }

NotRunning == [pc |-> "idle"]
NotBuilding == [pc |-> "idle"]
NotCalled == [raised |-> "not called", self |-> NoVolume]

\* the state before any call, for the configuration c and module keys m
Start(c, m) ==
    /\ cfg = c
    /\ MODULES = m
    /\ volumes = <<>>
    /\ creates = <<>>
    /\ origin = <<>>
    /\ bpy = EmptyScene
    /\ materials = [n \in MaterialNames |-> <<2, 2, 2>>]
    /\ building = NotBuilding
    /\ run = NotRunning

config == <<cfg, MODULES, argScale, argLocation, constructed>>

----------------------------------------------------------------------------
(* The calls a script makes on factories and volumes                       *)

\* what a call that produced a volume (or raised) leaves behind
Returned(op, p) ==
    IF p.raised # ""
    THEN /\ bpy' = p.bpy
         /\ UNCHANGED <<volumes, creates, origin>>
    ELSE /\ volumes' = Append(volumes, p.self)
         /\ creates' = Append(creates, p.created)
         /\ origin' = Append(origin, [op |-> op, creates |-> p.created,
                                      mesh |-> p.self.mesh])
         /\ bpy' = p.bpy

\* Volume(scale, location)
NewVolume ==
    \E s \in ScaleInputs, l \in LocationInputs, d \in FloorDraw :
        /\ Len(volumes) < MaxVolumes
        /\ LET r == VolumeInit(cfg, s, l, d)
           IN Returned("Volume",
                       [raised |-> r.raised, self |-> r.self, bpy |-> bpy,
                        created |-> 0])
        /\ UNCHANGED <<config, materials, building, run>>

\* Factory().produce(scale)
ProduceScaled ==
    \E s \in ScaleInputs, d \in FloorDraw :
        /\ Len(volumes) < MaxVolumes
        /\ Returned("produce(scale)",
                    Factory_produce(cfg, bpy, Scale(s), <<0, 0, 0>>, d))
        /\ UNCHANGED <<config, materials, building, run>>

\* Factory().produce()
ProduceRandom ==
    \E rnd \in RandomDraws(cfg), d \in FloorDraw :
        /\ Len(volumes) < MaxVolumes
        /\ Returned("produce()",
                    Factory_produce(cfg, bpy, NoScale, rnd, d))
        /\ UNCHANGED <<config, materials, building, run>>

\* volumes[i].create(), called once on a volume handed out without a mesh
Create ==
    \E i \in 1..Len(volumes) :
        /\ volumes[i].mesh = None
        /\ LET m == Volume_create(volumes[i], bpy)
           IN /\ volumes' = [volumes EXCEPT ![i] = m.self]
              /\ bpy' = m.bpy
        /\ creates' = [creates EXCEPT ![i] = @ + 1]
        /\ UNCHANGED <<config, origin, materials, building, run>>

\* copy.copy(volumes[i])
Copy ==
    \E i \in 1..Len(volumes), d \in FloorDraw :
        /\ Len(volumes) < MaxVolumes
        /\ Returned("__copy__", Volume_copy(cfg, volumes[i], bpy, d))
        /\ UNCHANGED <<config, materials, building, run>>

\* volumes[i].apply(material)
Apply ==
    \E i \in 1..Len(volumes), m \in MaterialNames \cup {NotAMaterial} :
        /\ LET a == Volume_apply(volumes[i], bpy, materials, m)
           IN /\ bpy' = a.bpy
              /\ materials' = a.materials
        /\ UNCHANGED <<config, volumes, creates, origin, building, run>>

----------------------------------------------------------------------------
(* Volume.add_modules.  The module and applier classes are not among the   *)
(* sources: a call of module.apply() or of the applier's apply either      *)
(* returns or raises an Exception.                                         *)

\* the draws of np.random.random() in hundredths that decide an attachment
AttachDraws == {0, 75, 76, 99}

\* which of the two apply calls of one iteration raise
Failures == SUBSET {"module.apply", "applier.apply"}

\* n of lines 124-127: the range of axis and of side
RangeOf(module_name) == IF module_name = "roof" THEN 1 ELSE 2

\* the probability without the roof's special case
ProbOfAnyType(module_name) == 75

\* prob of lines 125-128, in hundredths
ProbOf(module_name) == IF module_name = "roof" THEN 100 ELSE 75

\* np.random.random() <= prob
Attaches(module_name, draw) == draw <= ProbOf(module_name)

\* the values of x_step = np.random.randint(2, 6)
XSteps == RandInt(2, 6)

Called(f, a, b) == [f |-> f, a |-> a, b |-> b]

NoIteration ==
    [module |-> "", axis |-> 0, side |-> 0, x_step |-> 0, draw |-> 0,
     attached |-> FALSE, calls |-> <<>>]

\* the state of add_modules on volumes[i] when it enters its loops
Entered(i, keys) ==
    [pc |-> IF Len(keys) = 0 THEN "returned" ELSE "loop",
     self |-> i, m |-> 1, axis |-> 0, side |-> 0,
     considered |-> <<>>,
     attached |-> [k \in {keys[j] : j \in 1..Len(keys)} |-> 0],
     last |-> NoIteration]

\* the next (module, axis, side) of the three nested loops, or the return
Advance(r, keys) ==
    LET n == RangeOf(keys[r.m])
    IN IF r.side + 1 < n THEN [r EXCEPT !.side = @ + 1]
       ELSE IF r.axis + 1 < n THEN [r EXCEPT !.axis = @ + 1, !.side = 0]
       ELSE IF r.m < Len(keys)
       THEN [r EXCEPT !.m = @ + 1, !.axis = 0, !.side = 0]
       ELSE [r EXCEPT !.pc = "returned"]

\* the calls of lines 133-149 for one attachment, up to the first
\* exception that is not caught
AttachCalls(axis, side, x_step, floor, fails) ==
    <<Called("produce", 0, 0), Called("connect", axis, side),
      Called("module.apply", 0, 0)>>
    \o (IF "module.apply" \in fails THEN <<Called("print", 0, 0)>> ELSE <<>>)
    \o <<Called("applier.apply", x_step, floor)>>

\* whether an exception leaves the body of the loops
Propagates(fails) == "applier.apply" \in fails

\* one pass through the body of the loops (lines 131-149) and on to the next
Iteration(r, keys, floor, x_step, draw, fails) ==
    LET name == keys[r.m]
        seen == [r EXCEPT !.considered = Append(@, <<name, r.axis, r.side>>)]
        this == [module |-> name, axis |-> r.axis, side |-> r.side,
                 x_step |-> x_step, draw |-> draw, attached |-> FALSE,
                 calls |-> <<>>]
    IN IF ~Attaches(name, draw)
       THEN Advance([seen EXCEPT !.last = this], keys)
       ELSE LET done == [seen EXCEPT
                           !.attached[name] = @ + 1,
                           !.last = [this EXCEPT
                                       !.attached = TRUE,
                                       !.calls = AttachCalls(r.axis, r.side,
                                                     x_step, floor, fails)]]
            IN IF Propagates(fails)
               THEN [done EXCEPT !.pc = "raised"]
               ELSE Advance(done, keys)

\* volumes[i].add_modules() is called
AddModulesCall ==
    \E i \in 1..Len(volumes) :
        /\ run.pc = "idle"
        /\ volumes[i].mesh # None
        /\ run' = Entered(i, MODULES)
        /\ UNCHANGED <<config, volumes, creates, origin, bpy, materials,
                       building>>

\* one iteration of the loops of add_modules
AddModulesIteration ==
    \E x_step \in XSteps, draw \in AttachDraws, fails \in Failures :
        /\ run.pc = "loop"
        /\ run' = Iteration(run, MODULES, volumes[run.self].floor,
                            x_step, draw, fails)
        /\ UNCHANGED <<config, volumes, creates, origin, bpy, materials,
                       building>>

RECURSIVE RunLoops(_, _, _, _, _, _)
\* the loops of add_modules run to their end with the same draws and the
\* same failures in every iteration
RunLoops(r, keys, floor, x_step, draw, fails) ==
    IF r.pc # "loop" THEN r
    ELSE RunLoops(Iteration(r, keys, floor, x_step, draw, fails),
                  keys, floor, x_step, draw, fails)

\* the draws and failures of the whole runs: <<x_step, draw, fails>>
WholeRuns ==
    { <<2, 0, {}>>, <<5, 99, {"module.apply"}>>, <<3, 75, {"applier.apply"}>> }

\* volumes[i].add_modules() from call to return or raise, in one step
AddModules ==
    \E i \in 1..Len(volumes), w \in WholeRuns :
        /\ volumes[i].mesh # None
        /\ LET r == RunLoops(Entered(i, MODULES), MODULES, volumes[i].floor,
                             w[1], w[2], w[3])
           IN run' = [pc |-> r.pc]
        /\ UNCHANGED <<config, volumes, creates, origin, bpy, materials,
                       building>>

\* a scene in which Factory().produce(scale) has returned one volume
InitModules ==
    /\ \E c \in VolumeConfigs, m \in ModuleKeyOrders, d \in FloorDraws :
          LET p == Factory_produce(c, EmptyScene, Scale(DefaultScale),
                                   <<0, 0, 0>>, d)
          IN /\ cfg = c
             /\ MODULES = m
             /\ volumes = <<p.self>>
             /\ creates = <<p.created>>
             /\ origin = <<[op |-> "produce(scale)", creates |-> p.created,
                            mesh |-> p.self.mesh]>>
             /\ bpy = p.bpy
    /\ materials = [n \in MaterialNames |-> <<2, 2, 2>>]
    /\ building = NotBuilding
    /\ run = NotRunning
    /\ argScale = DefaultScale
    /\ argLocation = DefaultLocation
    /\ constructed = NotCalled

NextModules ==
    \/ AddModulesCall
    \/ AddModulesIteration

SpecModules == InitModules /\ [][NextModules]_vars

InitVolume ==
    /\ \E c \in VolumeConfigs : Start(c, <<"window", "balcony", "roof">>)
    /\ argScale = DefaultScale
    /\ argLocation = DefaultLocation
    /\ constructed = NotCalled

NextVolume ==
    \/ NewVolume
    \/ ProduceScaled
    \/ ProduceRandom
    \/ Create
    \/ Copy
    \/ Apply
    \/ AddModules

SpecVolume == InitVolume /\ [][NextVolume]_vars

----------------------------------------------------------------------------
(* The constructor on arbitrary tuples                                     *)

Tuples(S, n) == [1..n -> S]

ScaleElements == {PyInt(0), PyFloat(3), NaN, Str}
LocationElements == {PyFloat(0), Str}
ShortElements == {PyInt(1), Str}

CtorScales ==
    Tuples(ScaleElements, 3) \cup Tuples(ShortElements, 2)
        \cup Tuples(ShortElements, 4) \cup {<<>>}

CtorLocations ==
    Tuples(LocationElements, 3) \cup Tuples(LocationElements, 2)
        \cup Tuples(LocationElements, 4)

\* Volume(argScale, argLocation)
CallVolume ==
    \E d \in FloorDraws :
        /\ constructed = NotCalled
        /\ constructed' = VolumeInit(cfg, argScale, argLocation, d)
        /\ Returned("Volume",
                    [raised |-> constructed'.raised, self |-> constructed'.self,
                     bpy |-> bpy, created |-> 0])
        /\ UNCHANGED <<cfg, MODULES, argScale, argLocation, materials,
                       building, run>>

InitCtor ==
    /\ \E c \in VolumeConfigs : Start(c, <<"window", "balcony", "roof">>)
    /\ argScale \in CtorScales
    /\ argLocation \in CtorLocations
    /\ constructed = NotCalled

NextCtor == CallVolume

SpecCtor == InitCtor /\ [][NextCtor]_vars

----------------------------------------------------------------------------
(* CollectionFactory                                                       *)

MaxNumber == 3

NoNumber == [given |-> FALSE, n |-> 0]
Number(k) == [given |-> TRUE, n |-> k]
NumberInputs == {NoNumber} \cup {Number(k) : k \in 0..MaxNumber}

\* not number
Falsy(arg) == ~arg.given \/ arg.n = 0

\* the draw with the upper limit itself excluded
SampleNumberShort(c) == RandInt(1, c.MAX_VOLUMES)

\* the values of np.random.randint(1, MAX_VOLUMES+1)
SampleNumber(c) == RandInt(1, c.MAX_VOLUMES + 1)

\* Collection.add of shp2obj: the container is ordered
Collection_add(c, v) == Append(c, v)

\* CollectionFactory().produce(arg) up to its loop, drawing k if it draws
CollectionProduceWith(arg, k) ==
    /\ building.pc = "idle"
    /\ k \in SampleNumber(cfg)
    /\ building' = [pc |-> "loop", requested |-> arg,
                    number |-> IF Falsy(arg) THEN k ELSE arg.n,
                    i |-> 0, c |-> <<>>]
    /\ UNCHANGED <<config, volumes, creates, origin, bpy, materials, run>>

CollectionProduce ==
    \E arg \in NumberInputs, k \in 0..(cfg.MAX_VOLUMES + 1) :
        CollectionProduceWith(arg, k)

\* one iteration of the loop: c.add(self.volume_factory.produce())
CollectionAdd ==
    \E rnd \in RandomDraws(cfg), d \in FloorDraw :
        /\ building.pc = "loop"
        /\ building.i < building.number
        /\ LET p == Factory_produce(cfg, bpy, NoScale, rnd, d)
           IN /\ Returned("produce()", p)
              /\ building' =
                    [building EXCEPT
                        !.i = @ + 1,
                        !.c = IF p.raised = ""
                              THEN Collection_add(@, Len(volumes) + 1)
                              ELSE @]
        /\ UNCHANGED <<config, materials, run>>

\* return c
CollectionReturn ==
    /\ building.pc = "loop"
    /\ building.i = building.number
    /\ building' = [building EXCEPT !.pc = "returned"]
    /\ UNCHANGED <<config, volumes, creates, origin, bpy, materials, run>>

InitCollection ==
    /\ \E c \in Configs : Start(c, <<"window", "balcony", "roof">>)
    /\ argScale = DefaultScale
    /\ argLocation = DefaultLocation
    /\ constructed = NotCalled

NextCollection ==
    \/ CollectionProduce
    \/ CollectionAdd
    \/ CollectionReturn

SpecCollection == InitCollection /\ [][NextCollection]_vars

----------------------------------------------------------------------------
(* Properties                                                              *)

AtLeastMinimums(v, c) ==
    /\ PyGE(v.width, PyInt(c.MIN_WIDTH))
    /\ PyGE(v.length, PyInt(c.MIN_LENGTH))
    /\ PyGE(v.height, PyInt(c.MIN_HEIGHT))

\* C1: every Volume that exists, whatever scale it was constructed with and
\* whichever of create, add_modules, apply and __copy__ have run since, has
\* width >= MIN_WIDTH, length >= MIN_LENGTH and height >= MIN_HEIGHT; so
\* has every copy.
C1_DimensionsAtLeastMinimums ==
    \A i \in 1..Len(volumes) : AtLeastMinimums(volumes[i], cfg)

\* a volume made from a scale below the minimums has been created, given a
\* material and copied, and an add_modules call has returned
C1_ClampedCreatedCopied ==
    \E i, j \in 1..Len(volumes) :
        /\ origin[i].op = "produce(scale)"
        /\ origin[j].op = "__copy__"
        /\ volumes[i].width = PyFloat(cfg.MIN_WIDTH)
        /\ volumes[j].width = volumes[i].width
        /\ volumes[j].height = volumes[i].height
        /\ bpy.objects[volumes[i].mesh].active_material # ""
        /\ run.pc = "returned"

\* C2: CollectionFactory.produce(N) with a non-negative integer N returns a
\* Collection of exactly N volumes.
C2_ExactlyRequestedCount ==
    (building.pc = "returned" /\ building.requested.given)
        => Len(building.c) = building.requested.n

\* C3: CollectionFactory.produce() without a number returns between 1 and
\* MAX_VOLUMES volumes, as many as the number it drew; every number from 1
\* to MAX_VOLUMES can be drawn, and a call that has drawn can always go on.
C3_UnspecifiedCountInRange ==
    /\ (building.pc = "returned" /\ ~building.requested.given)
          => /\ Len(building.c) = building.number
             /\ Len(building.c) >= 1
             /\ Len(building.c) <= cfg.MAX_VOLUMES
    /\ building.pc = "idle"
          => \A k \in 1..cfg.MAX_VOLUMES :
                ENABLED CollectionProduceWith(NoNumber, k)
    /\ building.pc = "loop" => ENABLED (CollectionAdd \/ CollectionReturn)

\* produce() without a number has returned MAX_VOLUMES >= 2 volumes
C3_ReturnedMaximum ==
    /\ building.pc = "returned"
    /\ ~building.requested.given
    /\ cfg.MAX_VOLUMES >= 2
    /\ Len(building.c) = cfg.MAX_VOLUMES

\* C4: every volume Factory.produce returns, with a scale or without, has
\* had create() called exactly once and has its mesh when it is returned.
C4_CreatedOnceWhenReturned ==
    \A i \in 1..Len(volumes) :
        origin[i].op \in {"produce(scale)", "produce()"}
            => origin[i].creates = 1 /\ origin[i].mesh # None

\* the (module, axis, side) triples add_modules goes through, in order
RECURSIVE AllPairs(_)
AllPairs(keys) ==
    IF Len(keys) = 0 THEN <<>>
    ELSE (IF Head(keys) = "roof"
          THEN <<<<"roof", 0, 0>>>>
          ELSE <<<<Head(keys), 0, 0>>, <<Head(keys), 0, 1>>,
                 <<Head(keys), 1, 0>>, <<Head(keys), 1, 1>>>>)
         \o AllPairs(Tail(keys))

\* C5: no exception leaves add_modules, and after a failure of applying a
\* module the remaining (module, axis, side) iterations still run.
C5_FailuresNeverPropagate ==
    /\ run.pc # "raised"
    /\ run.pc = "returned" => run.considered = AllPairs(MODULES)

Within(x, low, high) == PyGE(x, PyInt(low)) /\ PyLE(x, PyInt(high))

\* C6: a volume of Factory.produce() without a scale has its width in
\* [MIN_WIDTH, MAX_WIDTH], its length in [MIN_LENGTH, MAX_LENGTH] and its
\* height in [MIN_HEIGHT, MAX_HEIGHT].
C6_RandomWithinOwnAxisBounds ==
    \A i \in 1..Len(volumes) :
        origin[i].op = "produce()"
            => /\ Within(volumes[i].width, cfg.MIN_WIDTH, cfg.MAX_WIDTH)
               /\ Within(volumes[i].length, cfg.MIN_LENGTH, cfg.MAX_LENGTH)
               /\ Within(volumes[i].height, cfg.MIN_HEIGHT, cfg.MAX_HEIGHT)

CountOf(name, triples) ==
    Cardinality({k \in 1..Len(triples) : triples[k][1] = name})

\* C7: a roof pair is attached whatever the draw, so as many roofs are
\* attached as roof pairs are considered; a pair of any other type is
\* attached exactly when its draw is at most 0.75.
C7_RoofAlwaysOthersByDraw ==
    run.pc \in {"loop", "returned", "raised"} =>
        /\ run.attached["roof"] = CountOf("roof", run.considered)
        /\ run.last.module = "roof" => run.last.attached
        /\ run.last.module \in {"window", "balcony"}
              => (run.last.attached <=> run.last.draw <= 75)

\* a roof was attached on a draw above 0.75 after a window pair was skipped
C7_RoofAttachedWindowSkipped ==
    /\ run.pc \in {"returned", "raised"}
    /\ run.last.module = "roof"
    /\ run.last.draw = 99
    /\ run.last.attached
    /\ run.attached["window"] < CountOf("window", run.considered)

IsPrefix(s, t) == Len(s) <= Len(t) /\ \A k \in 1..Len(s) : s[k] = t[k]

\* C8: a call of add_modules considers the pair (0,0) for roof and the
\* pairs (0,0), (0,1), (1,0), (1,1) in that order for every other type; it
\* attaches exactly one roof and at most four modules of each other type;
\* for each attached module connect(axis, side) comes before module.apply(),
\* which comes before the applier's apply with step (x_step in 2..5, floor).
C8_PairsOrderAndCounts ==
    run.pc \in {"loop", "returned", "raised"} =>
        /\ IsPrefix(run.considered, AllPairs(MODULES))
        /\ run.pc \in {"returned", "raised"} => run.attached["roof"] = 1
        /\ \A k \in DOMAIN run.attached : run.attached[k] <= 4
        /\ run.last.attached =>
              LET calls == run.last.calls
                  n == Len(calls)
              IN /\ calls[2] = Called("connect", run.last.axis, run.last.side)
                 /\ calls[3] = Called("module.apply", 0, 0)
                 /\ calls[n].f = "applier.apply"
                 /\ calls[n].a \in 2..5
                 /\ calls[n].b = volumes[run.self].floor

\* C9: a volume on which create() has returned has a mesh of its own, the
\* name the host gave that mesh, a collection of that name under Building
\* that holds the mesh, and a mesh that was nested, extruded by the
\* volume's height, tagged with inst_id 1 and pass_index 1 and triangulated,
\* in that order; the second and later volumes of a scene too.
C9_CreatePostcondition ==
    \A i \in 1..Len(volumes) :
        creates[i] >= 1 =>
            LET v == volumes[i] IN
            /\ v.mesh # None
            /\ v.mesh \in DOMAIN bpy.objects
            /\ v.name = v.mesh
            /\ \A j \in 1..Len(volumes) : volumes[j].mesh = v.mesh => j = i
            /\ v.name \in DOMAIN bpy.collections
            /\ v.mesh \in bpy.collections[v.name].objects
            /\ v.name \in bpy.collections["Building"].children
            /\ bpy.objects[v.mesh].ops =
                  <<"plane_add", "resize", "nest", "extrude", "tag",
                    "triangulate">>
            /\ bpy.objects[v.mesh].extruded = <<v.height>>
            /\ bpy.objects[v.mesh].inst_id = 1
            /\ bpy.objects[v.mesh].pass_index = 1
            /\ bpy.objects[v.mesh].triangulated

\* a second volume has been created in the scene of the first
C9_SecondVolumeCreated ==
    /\ Len(volumes) >= 2
    /\ \A i \in 1..2 : creates[i] >= 1
    /\ volumes[2].name = "volume.001"
    /\ "volume.001" \in bpy.collections["Building"].children

NumericTriple(t) == Len(t) = 3 /\ \A k \in 1..3 : IsNumber(t[k])

\* C10: Volume(scale, location) raises AssertionError and makes no Volume
\* unless scale and location are both tuples of three numbers, and succeeds
\* when they are.
C10_RejectsAllButNumericTriples ==
    constructed # NotCalled =>
        IF NumericTriple(argScale) /\ NumericTriple(argLocation)
        THEN constructed.raised = "" /\ Len(volumes) = 1
        ELSE constructed.raised = "AssertionError" /\ Len(volumes) = 0

====
